---- MODULE Spec2Model ----
(***************************************************************************)
(* Model of test_pdfs/create_test_pdf.py: a straight-line routine that     *)
(* opens a letter-sized canvas, places literal strings at literal          *)
(* coordinates on three pages, saves the document and prints one line.     *)
(*                                                                         *)
(* A Python str is modelled as the sequence of its Unicode code points, so *)
(* that slicing is an operation on positions.  File names and the printed  *)
(* line are ASCII and are kept as TLA+ strings.                            *)
(***************************************************************************)
EXTENDS Integers, Sequences, FiniteSets

\* Number of distinct errors the library or the file system may raise.
NumErrors == 2

\* Number of times an importing caller invokes create_test_pdf.
MaxCalls == 2

Errors == 1..NumErrors

NoError == 0

\* The script's own argument (line 75) and one more name a caller may pass.
Filenames == {"test_document.pdf", "fixture.pdf"}

\* reportlab.lib.pagesizes.letter, in points (imported at line 7).
letter == <<612, 792>>

VARIABLES
  mode,      \* "script": run as __main__; "imported": used by a caller
  status,    \* "start", "loaded", "running", "returned", "raised"
  pc,        \* index of the next statement of create_test_pdf
  filename,  \* the parameter of the running call
  c,         \* the canvas object
  width,     \* local of line 12
  height,    \* local of line 12
  fs,        \* file system: path -> content
  stdout,    \* lines printed
  uncaught,  \* the error that left create_test_pdf, or NoError
  args,      \* filenames passed to create_test_pdf so far
  calls,     \* calls made on the current canvas, in order
  effects,   \* external effects of the process, in order
  raises     \* errors raised by library calls, with the raising line

vars == <<mode, status, pc, filename, c, width, height, fs, stdout,
          uncaught, args, calls, effects, raises>>

----------------------------------------------------------------------------
(* Python and library primitives *)

Min(a, b) == IF a < b THEN a ELSE b

\* s[start:stop] for 0 <= start, 0 <= stop; positions past the end are clamped.
PySliceInclusive(s, start, stop) ==
  SubSeq(s, Min(start, Len(s)) + 1, Min(stop + 1, Len(s)))

PySlice(s, start, stop) ==
  SubSeq(s, Min(start, Len(s)) + 1, Min(stop, Len(s)))

NoCanvas == [filename |-> "", pagesize |-> <<0, 0>>, code |-> <<>>, pages |-> <<>>]

\* canvas.Canvas(filename, pagesize=letter)
CanvasDefaultSize(fn, pagesize) ==
  [filename |-> fn, pagesize |-> <<595, 842>>, code |-> <<>>, pages |-> <<>>]

CanvasFixedName(fn, pagesize) ==
  [filename |-> "test_document.pdf", pagesize |-> pagesize, code |-> <<>>, pages |-> <<>>]

Canvas(fn, pagesize) ==
  [filename |-> fn, pagesize |-> pagesize, code |-> <<>>, pages |-> <<>>]

\* width, height = letter
UnpackSwapped(size) == [width |-> size[2], height |-> size[1]]

Unpack(size) == [width |-> size[1], height |-> size[2]]

\* c.drawString(x, y, text): one text instruction appended to the open page
drawStringOverwrite(cv, x, y, text) ==
  [cv EXCEPT !.code = <<[x |-> x, y |-> y, text |-> text]>>]

drawString(cv, x, y, text) ==
  [cv EXCEPT !.code = Append(@, [x |-> x, y |-> y, text |-> text])]

\* c.showPage(): the open page is emitted with the canvas page size and a
\* fresh page is started
showPageKeepCode(cv) ==
  [cv EXCEPT !.pages = Append(@, [pagesize |-> cv.pagesize, code |-> cv.code])]

showPage(cv) ==
  [cv EXCEPT !.pages = Append(@, [pagesize |-> cv.pagesize, code |-> cv.code]),
             !.code = <<>>]

\* c.save() first emits the open page when it has content
PageHasContent(cv) == Len(cv.code) > 0

saveNoFlush(cv) == cv

save(cv) == IF PageHasContent(cv) THEN showPage(cv) ELSE cv

Absent == [kind |-> "absent", pages |-> <<>>]

Stale == [kind |-> "other", pages |-> <<>>]

Truncated == [kind |-> "truncated", pages |-> <<>>]

Pdf(cv) == [kind |-> "pdf", pages |-> cv.pages]

\* print(f"Created test PDF: {filename}")
Confirmation(fn) == "Created test PDF: " \o fn

\* No try/except in create_test_pdf or at module level: an error raised by
\* a call ends the process with that error.
PropagateSwallowed(e) == [status |-> "running", uncaught |-> NoError]

Propagate(e) == [status |-> "raised", uncaught |-> e]

----------------------------------------------------------------------------
(* The statements of create_test_pdf, lines 11..72 *)

Stmt(op, line) == [op |-> op, line |-> line, x |-> 0, k |-> 0, text |-> <<>>]

\* c.drawString(x, height - k, text) at the given line
DrawCall(line, x, k, text) ==
  [op |-> "drawString", line |-> line, x |-> x, k |-> k, text |-> text]

\* This is a very long line of text that should extend beyond the normal margins and might cause issues with text extraction if the PDF parser doesn't handle line breaks and word boundaries correctly.
long_text ==
  <<84, 104, 105, 115, 32, 105, 115, 32, 97, 32, 118, 101, 114, 121, 32, 108, 111, 110, 103, 32, 108, 105, 110, 101, 32, 111, 102, 32, 116, 101, 120, 116, 32, 116, 104, 97, 116, 32, 115, 104, 111, 117, 108, 100, 32, 101, 120, 116, 101, 110, 100, 32, 98, 101, 121, 111, 110, 100, 32, 116, 104, 101, 32, 110, 111, 114, 109, 97, 108, 32, 109, 97, 114, 103, 105, 110, 115, 32, 97, 110, 100, 32, 109, 105, 103, 104, 116, 32, 99, 97, 117, 115, 101, 32, 105, 115, 115, 117, 101, 115, 32, 119, 105, 116, 104, 32, 116, 101, 120, 116, 32, 101, 120, 116, 114, 97, 99, 116, 105, 111, 110, 32, 105, 102, 32, 116, 104, 101, 32, 80, 68, 70, 32, 112, 97, 114, 115, 101, 114, 32, 100, 111, 101, 115, 110, 39, 116, 32, 104, 97, 110, 100, 108, 101, 32, 108, 105, 110, 101, 32, 98, 114, 101, 97, 107, 115, 32, 97, 110, 100, 32, 119, 111, 114, 100, 32, 98, 111, 117, 110, 100, 97, 114, 105, 101, 115, 32, 99, 111, 114, 114, 101, 99, 116, 108, 121, 46>>

Page1Calls ==
  <<
  \* line 15: Page 1: Simple Text Testing
  DrawCall(15, 100, 100,
    <<80, 97, 103, 101, 32, 49, 58, 32, 83, 105, 109, 112, 108, 101, 32, 84, 101, 120, 116, 32, 84, 101, 115, 116, 105, 110, 103>>),
  \* line 16: This is a normal paragraph with standard text.
  DrawCall(16, 100, 140,
    <<84, 104, 105, 115, 32, 105, 115, 32, 97, 32, 110, 111, 114, 109, 97, 108, 32, 112, 97, 114, 97, 103, 114, 97, 112, 104, 32, 119, 105, 116, 104, 32, 115, 116, 97, 110, 100, 97, 114, 100, 32, 116, 101, 120, 116, 46>>),
  \* line 17: It contains multiple sentences to test basic extraction.
  DrawCall(17, 100, 160,
    <<73, 116, 32, 99, 111, 110, 116, 97, 105, 110, 115, 32, 109, 117, 108, 116, 105, 112, 108, 101, 32, 115, 101, 110, 116, 101, 110, 99, 101, 115, 32, 116, 111, 32, 116, 101, 115, 116, 32, 98, 97, 115, 105, 99, 32, 101, 120, 116, 114, 97, 99, 116, 105, 111, 110, 46>>),
  \* line 18: Numbers: 12345, Symbols: !@#$%, Mixed: Text123
  DrawCall(18, 100, 180,
    <<78, 117, 109, 98, 101, 114, 115, 58, 32, 49, 50, 51, 52, 53, 44, 32, 83, 121, 109, 98, 111, 108, 115, 58, 32, 33, 64, 35, 36, 37, 44, 32, 77, 105, 120, 101, 100, 58, 32, 84, 101, 120, 116, 49, 50, 51>>),
  \* line 21: S p a c e d   t e x t   l i k e   O C R   m i g h t   p r o d u c e
  DrawCall(21, 100, 220,
    <<83, 32, 112, 32, 97, 32, 99, 32, 101, 32, 100, 32, 32, 32, 116, 32, 101, 32, 120, 32, 116, 32, 32, 32, 108, 32, 105, 32, 107, 32, 101, 32, 32, 32, 79, 32, 67, 32, 82, 32, 32, 32, 109, 32, 105, 32, 103, 32, 104, 32, 116, 32, 32, 32, 112, 32, 114, 32, 111, 32, 100, 32, 117, 32, 99, 32, 101>>),
  \* line 24: CamelCaseText and normal text mixed together
  DrawCall(24, 100, 260,
    <<67, 97, 109, 101, 108, 67, 97, 115, 101, 84, 101, 120, 116, 32, 97, 110, 100, 32, 110, 111, 114, 109, 97, 108, 32, 116, 101, 120, 116, 32, 109, 105, 120, 101, 100, 32, 116, 111, 103, 101, 116, 104, 101, 114>>),
  \* line 25: ALL CAPS TEXT AND normal text
  DrawCall(25, 100, 280,
    <<65, 76, 76, 32, 67, 65, 80, 83, 32, 84, 69, 88, 84, 32, 65, 78, 68, 32, 110, 111, 114, 109, 97, 108, 32, 116, 101, 120, 116>>),
  \* line 28: • First bullet point
  DrawCall(28, 100, 320,
    <<8226, 32, 70, 105, 114, 115, 116, 32, 98, 117, 108, 108, 101, 116, 32, 112, 111, 105, 110, 116>>),
  \* line 29: • Second bullet point with more text content
  DrawCall(29, 100, 340,
    <<8226, 32, 83, 101, 99, 111, 110, 100, 32, 98, 117, 108, 108, 101, 116, 32, 112, 111, 105, 110, 116, 32, 119, 105, 116, 104, 32, 109, 111, 114, 101, 32, 116, 101, 120, 116, 32, 99, 111, 110, 116, 101, 110, 116>>),
  \* line 30: • Third point
  DrawCall(30, 100, 360,
    <<8226, 32, 84, 104, 105, 114, 100, 32, 112, 111, 105, 110, 116>>)
  >>

Page2Calls ==
  <<
  \* line 35: Page 2: Complex Layout Testing
  DrawCall(35, 100, 100,
    <<80, 97, 103, 101, 32, 50, 58, 32, 67, 111, 109, 112, 108, 101, 120, 32, 76, 97, 121, 111, 117, 116, 32, 84, 101, 115, 116, 105, 110, 103>>),
  \* line 38: Left Column:
  DrawCall(38, 100, 140,
    <<76, 101, 102, 116, 32, 67, 111, 108, 117, 109, 110, 58>>),
  \* line 39: This text should be in
  DrawCall(39, 100, 160,
    <<84, 104, 105, 115, 32, 116, 101, 120, 116, 32, 115, 104, 111, 117, 108, 100, 32, 98, 101, 32, 105, 110>>),
  \* line 40: the left column area
  DrawCall(40, 100, 180,
    <<116, 104, 101, 32, 108, 101, 102, 116, 32, 99, 111, 108, 117, 109, 110, 32, 97, 114, 101, 97>>),
  \* line 41: with multiple lines
  DrawCall(41, 100, 200,
    <<119, 105, 116, 104, 32, 109, 117, 108, 116, 105, 112, 108, 101, 32, 108, 105, 110, 101, 115>>),
  \* line 43: Right Column:
  DrawCall(43, 350, 140,
    <<82, 105, 103, 104, 116, 32, 67, 111, 108, 117, 109, 110, 58>>),
  \* line 44: This text should be in
  DrawCall(44, 350, 160,
    <<84, 104, 105, 115, 32, 116, 101, 120, 116, 32, 115, 104, 111, 117, 108, 100, 32, 98, 101, 32, 105, 110>>),
  \* line 45: the right column area
  DrawCall(45, 350, 180,
    <<116, 104, 101, 32, 114, 105, 103, 104, 116, 32, 99, 111, 108, 117, 109, 110, 32, 97, 114, 101, 97>>),
  \* line 46: with different content
  DrawCall(46, 350, 200,
    <<119, 105, 116, 104, 32, 100, 105, 102, 102, 101, 114, 101, 110, 116, 32, 99, 111, 110, 116, 101, 110, 116>>),
  \* line 49: Table Data:
  DrawCall(49, 100, 280,
    <<84, 97, 98, 108, 101, 32, 68, 97, 116, 97, 58>>),
  \* line 50: Name        Age    City
  DrawCall(50, 100, 300,
    <<78, 97, 109, 101, 32, 32, 32, 32, 32, 32, 32, 32, 65, 103, 101, 32, 32, 32, 32, 67, 105, 116, 121>>),
  \* line 51: John Doe    25     New York
  DrawCall(51, 100, 320,
    <<74, 111, 104, 110, 32, 68, 111, 101, 32, 32, 32, 32, 50, 53, 32, 32, 32, 32, 32, 78, 101, 119, 32, 89, 111, 114, 107>>),
  \* line 52: Jane Smith  30     Los Angeles
  DrawCall(52, 100, 340,
    <<74, 97, 110, 101, 32, 83, 109, 105, 116, 104, 32, 32, 51, 48, 32, 32, 32, 32, 32, 76, 111, 115, 32, 65, 110, 103, 101, 108, 101, 115>>),
  \* line 53: Bob Wilson  35     Chicago
  DrawCall(53, 100, 360,
    <<66, 111, 98, 32, 87, 105, 108, 115, 111, 110, 32, 32, 51, 53, 32, 32, 32, 32, 32, 67, 104, 105, 99, 97, 103, 111>>)
  >>

Page3Calls ==
  <<
  \* line 58: Page 3: Edge Cases and Special Characters
  DrawCall(58, 100, 100,
    <<80, 97, 103, 101, 32, 51, 58, 32, 69, 100, 103, 101, 32, 67, 97, 115, 101, 115, 32, 97, 110, 100, 32, 83, 112, 101, 99, 105, 97, 108, 32, 67, 104, 97, 114, 97, 99, 116, 101, 114, 115>>),
  \* line 59: Unicode: café résumé naïve coöperate
  DrawCall(59, 100, 140,
    <<85, 110, 105, 99, 111, 100, 101, 58, 32, 99, 97, 102, 233, 32, 114, 233, 115, 117, 109, 233, 32, 110, 97, 239, 118, 101, 32, 99, 111, 246, 112, 101, 114, 97, 116, 101>>),
  \* line 60: Accents: àáâãäåæçèéêëìíîïñòóôõöøùúûüý
  DrawCall(60, 100, 160,
    <<65, 99, 99, 101, 110, 116, 115, 58, 32, 224, 225, 226, 227, 228, 229, 230, 231, 232, 233, 234, 235, 236, 237, 238, 239, 241, 242, 243, 244, 245, 246, 248, 249, 250, 251, 252, 253>>),
  \* line 61: Math: α β γ δ ε π Σ ∑ ∫ ∞ ≤ ≥ ≠ ±
  DrawCall(61, 100, 180,
    <<77, 97, 116, 104, 58, 32, 945, 32, 946, 32, 947, 32, 948, 32, 949, 32, 960, 32, 931, 32, 8721, 32, 8747, 32, 8734, 32, 8804, 32, 8805, 32, 8800, 32, 177>>),
  \* line 62: Quotes: "smart quotes" 'single quotes' «guillemets»
  DrawCall(62, 100, 200,
    <<81, 117, 111, 116, 101, 115, 58, 32, 34, 115, 109, 97, 114, 116, 32, 113, 117, 111, 116, 101, 115, 34, 32, 39, 115, 105, 110, 103, 108, 101, 32, 113, 117, 111, 116, 101, 115, 39, 32, 171, 103, 117, 105, 108, 108, 101, 109, 101, 116, 115, 187>>),
  \* line 63: Em dash—en dash–hyphen-
  DrawCall(63, 100, 220,
    <<69, 109, 32, 100, 97, 115, 104, 8212, 101, 110, 32, 100, 97, 115, 104, 8211, 104, 121, 112, 104, 101, 110, 45>>),
  \* line 64: Ellipsis… and three dots...
  DrawCall(64, 100, 240,
    <<69, 108, 108, 105, 112, 115, 105, 115, 8230, 32, 97, 110, 100, 32, 116, 104, 114, 101, 101, 32, 100, 111, 116, 115, 46, 46, 46>>),
  \* line 68: long_text[:80]
  DrawCall(68, 100, 280,
    PySlice(long_text, 0, 80)),
  \* line 69: long_text[80:]
  DrawCall(69, 100, 300,
    PySlice(long_text, 80, Len(long_text)))
  >>

ProgramPrintFirst ==
  <<Stmt("Canvas", 11), Stmt("unpack", 12)>>
    \o Page1Calls \o <<Stmt("showPage", 32)>>
    \o Page2Calls \o <<Stmt("showPage", 55)>>
    \o Page3Calls \o <<Stmt("print", 72), Stmt("save", 71)>>

ProgramNoSecondShowPage ==
  <<Stmt("Canvas", 11), Stmt("unpack", 12)>>
    \o Page1Calls \o <<Stmt("showPage", 32)>>
    \o Page2Calls
    \o Page3Calls \o <<Stmt("save", 71), Stmt("print", 72)>>

Program ==
  <<Stmt("Canvas", 11), Stmt("unpack", 12)>>
    \o Page1Calls \o <<Stmt("showPage", 32)>>
    \o Page2Calls \o <<Stmt("showPage", 55)>>
    \o Page3Calls \o <<Stmt("save", 71), Stmt("print", 72)>>

Cur == Program[pc]

At(op) == status = "running" /\ pc \in 1..Len(Program) /\ Cur.op = op

CallEntry(op, by, line, x, y, text) ==
  [op |-> op, by |-> by, line |-> line, page |-> Len(c.pages) + 1,
   x |-> x, y |-> y, text |-> text]

Effect(kind, path) == [kind |-> kind, path |-> path]

----------------------------------------------------------------------------
(* Actions *)

Init ==
  /\ mode \in {"script", "imported"}
  /\ status = "start"
  /\ pc = 0
  /\ filename = ""
  /\ c = NoCanvas
  /\ width = 0
  /\ height = 0
  /\ fs \in [Filenames -> {Absent, Stale}]
  /\ stdout = <<>>
  /\ uncaught = NoError
  /\ args = <<>>
  /\ calls = <<>>
  /\ effects = <<>>
  /\ raises = <<>>

\* lines 6-8: the imports succeed
Import ==
  /\ status = "start"
  /\ status' = "loaded"
  /\ UNCHANGED <<mode, pc, filename, c, width, height, fs, stdout, uncaught,
                 args, calls, effects, raises>>

\* lines 6-7: the library is missing
ImportRaises ==
  /\ status = "start"
  /\ \E e \in Errors :
       /\ status' = Propagate(e).status
       /\ uncaught' = Propagate(e).uncaught
       /\ raises' = Append(raises, [err |-> e, line |-> 6])
  /\ UNCHANGED <<mode, pc, filename, c, width, height, fs, stdout,
                 args, calls, effects>>

\* line 10: entry of create_test_pdf(fn)
create_test_pdf(fn) ==
  /\ status' = "running"
  /\ pc' = 1
  /\ filename' = fn
  /\ c' = NoCanvas
  /\ width' = 0
  /\ height' = 0
  /\ calls' = <<>>
  /\ args' = Append(args, fn)
  /\ UNCHANGED <<mode, fs, stdout, uncaught, effects, raises>>

\* lines 74-75: the script entry point
Main ==
  /\ mode = "script"
  /\ status = "loaded"
  /\ create_test_pdf("test_document.pdf")

\* a caller that imported the module calls the routine (line 74 is false)
CallerCalls ==
  /\ mode = "imported"
  /\ status \in {"loaded", "returned"}
  /\ Len(args) < MaxCalls
  /\ \E fn \in Filenames : create_test_pdf(fn)

\* line 11
NewCanvas ==
  /\ At("Canvas")
  /\ c' = Canvas(filename, letter)
  /\ pc' = pc + 1
  /\ UNCHANGED <<mode, status, filename, width, height, fs, stdout, uncaught,
                 args, calls, effects, raises>>

\* line 12
UnpackLetter ==
  /\ At("unpack")
  /\ width' = Unpack(letter).width
  /\ height' = Unpack(letter).height
  /\ pc' = pc + 1
  /\ UNCHANGED <<mode, status, filename, c, fs, stdout, uncaught,
                 args, calls, effects, raises>>

\* lines 15-30, 35-53, 58-69
DrawString ==
  /\ At("drawString")
  /\ c' = drawString(c, Cur.x, height - Cur.k, Cur.text)
  /\ calls' = Append(calls, CallEntry("drawString", "script", Cur.line,
                                      Cur.x, height - Cur.k, Cur.text))
  /\ pc' = pc + 1
  /\ UNCHANGED <<mode, status, filename, width, height, fs, stdout, uncaught,
                 args, effects, raises>>

\* lines 32, 55
ShowPage ==
  /\ At("showPage")
  /\ c' = showPage(c)
  /\ calls' = Append(calls, CallEntry("showPage", "script", Cur.line, 0, 0, <<>>))
  /\ pc' = pc + 1
  /\ UNCHANGED <<mode, status, filename, width, height, fs, stdout, uncaught,
                 args, effects, raises>>

\* line 71: the open page is emitted if it has content, then the document is
\* written to the canvas's file, which the library opens and closes
Save ==
  /\ At("save")
  /\ c' = save(c)
  /\ calls' = calls
       \o <<CallEntry("save", "script", Cur.line, 0, 0, <<>>)>>
       \o (IF save(c) /= c
             THEN <<CallEntry("showPage", "save", Cur.line, 0, 0, <<>>)>>
             ELSE <<>>)
  /\ fs' = [fs EXCEPT ![c.filename] = Pdf(save(c))]
  /\ effects' = effects \o <<Effect("open", c.filename),
                             Effect("write", c.filename),
                             Effect("close", c.filename)>>
  /\ pc' = pc + 1
  /\ UNCHANGED <<mode, status, filename, width, height, stdout, uncaught,
                 args, raises>>

\* line 72, then the routine returns
WriteStdout ==
  /\ At("print")
  /\ stdout' = Append(stdout, Confirmation(filename))
  /\ effects' = Append(effects, Effect("print", "stdout"))
  /\ pc' = pc + 1
  /\ status' = IF pc = Len(Program) THEN "returned" ELSE status
  /\ UNCHANGED <<mode, filename, c, width, height, fs, uncaught,
                 args, calls, raises>>

\* lines 11, 15-69: a library call raises
LibraryRaises ==
  /\ status = "running" /\ pc \in 1..Len(Program)
  /\ Cur.op \in {"Canvas", "drawString", "showPage"}
  /\ \E e \in Errors :
       /\ status' = Propagate(e).status
       /\ uncaught' = Propagate(e).uncaught
       /\ raises' = Append(raises, [err |-> e, line |-> Cur.line])
  /\ UNCHANGED <<mode, pc, filename, c, width, height, fs, stdout,
                 args, calls, effects>>

\* line 71: save raises, either before the file is opened or after it was
\* opened (and so truncated) and before it is closed
SaveRaises ==
  /\ At("save")
  /\ \E e \in Errors :
       /\ status' = Propagate(e).status
       /\ uncaught' = Propagate(e).uncaught
       /\ raises' = Append(raises, [err |-> e, line |-> Cur.line])
  /\ calls' = Append(calls, CallEntry("save", "script", Cur.line, 0, 0, <<>>))
  /\ \/ UNCHANGED <<fs, effects>>
     \/ /\ fs' = [fs EXCEPT ![c.filename] = Truncated]
        /\ effects' = Append(effects, Effect("open", c.filename))
  /\ UNCHANGED <<mode, pc, filename, c, width, height, stdout, args>>

Next ==
  \/ Import
  \/ ImportRaises
  \/ Main
  \/ CallerCalls
  \/ NewCanvas
  \/ UnpackLetter
  \/ DrawString
  \/ ShowPage
  \/ Save
  \/ WriteStdout
  \/ LibraryRaises
  \/ SaveRaises

Spec == Init /\ [][Next]_vars

----------------------------------------------------------------------------
(* Derived views of the state *)

Range(s) == {s[i] : i \in DOMAIN s}

Done == status = "returned"

\* The document the completed call left in its file
SavedDoc == fs[filename]

IsDraw(e) == e.op = "drawString"

IsShowPage(e) == e.op = "showPage"

ByScript(e) == e.by = "script"

ScriptCalls == SelectSeq(calls, ByScript)

OpsOf(s) == [i \in DOMAIN s |-> s[i].op]

TextsOf(s) == [i \in DOMAIN s |-> s[i].text]

\* The drawString calls issued while page k was the open page, as instructions
DrawnOn(k) ==
  LET OnK(e) == IsDraw(e) /\ e.page = k
      sel == SelectSeq(calls, OnK)
  IN  [i \in DOMAIN sel |-> [x |-> sel[i].x, y |-> sel[i].y, text |-> sel[i].text]]

SaveCalled == \E i \in DOMAIN calls : calls[i].op = "save"

SaveIndex == CHOOSE i \in DOMAIN calls : calls[i].op = "save"

\* The offset k of the drawString statement at a source line
OffsetAt(line) ==
  LET i == CHOOSE j \in DOMAIN Program : Program[j].line = line
  IN  Program[i].k

\* Every page held by the canvas, the open one included, and every page of
\* a document this program wrote
AllPageCodes ==
  {c.code} \cup {c.pages[i].code : i \in DOMAIN c.pages}
    \cup UNION {{fs[p].pages[i].code : i \in DOMAIN fs[p].pages} : p \in Filenames}

AllPageSizes ==
  {c.pages[i].pagesize : i \in DOMAIN c.pages}
    \cup UNION {{fs[p].pages[i].pagesize : i \in DOMAIN fs[p].pages} : p \in Filenames}

----------------------------------------------------------------------------
(* Claims *)

\* C1: when create_test_pdf has run to completion the saved document has
\* exactly 3 pages, none of them empty, from exactly 3 page finalizations:
\* the two showPage calls of the script and the one save performs for the
\* open page.
C1_ThreePages ==
  Done =>
    /\ SavedDoc.kind = "pdf"
    /\ Len(SavedDoc.pages) = 3
    /\ \A i \in DOMAIN SavedDoc.pages : Len(SavedDoc.pages[i].code) > 0
    /\ Len(SelectSeq(calls, IsShowPage)) = 3
    /\ Len(SelectSeq(ScriptCalls, IsShowPage)) = 2

C1_Witness == Done /\ Len(SavedDoc.pages) = 3 /\ filename = "fixture.pdf"

\* C2: run as a script, the program writes exactly one file, named
\* test_document.pdf, and prints one confirmation line naming it; the line
\* is printed only once the file has been written and closed.
C2_ScriptOutput ==
  mode = "script" =>
    /\ Len(stdout) <= 1
    /\ \A i \in DOMAIN effects :
         effects[i].kind = "print" =>
           /\ i > 1
           /\ effects[i - 1] = Effect("close", "test_document.pdf")
           /\ fs["test_document.pdf"].kind = "pdf"
    /\ Done =>
         /\ stdout = <<"Created test PDF: test_document.pdf">>
         /\ {effects[i].path : i \in {j \in DOMAIN effects : effects[j].kind = "write"}}
              = {"test_document.pdf"}
         /\ Len(SelectSeq(effects, LAMBDA e : e.kind = "open")) = 1
         /\ fs["test_document.pdf"].kind = "pdf"
         /\ fs["fixture.pdf"] \in {Absent, Stale}

C2_Witness == mode = "script" /\ Done /\ Len(stdout) = 1

C4_LetterSize ==
  /\ c /= NoCanvas => c.pagesize = <<612, 792>>
  /\ \A s \in AllPageSizes : s = <<612, 792>>
  /\ \A i \in DOMAIN calls :
       IsDraw(calls[i]) => calls[i].y = 792 - OffsetAt(calls[i].line)
  /\ Done => Len(SavedDoc.pages) = 3

C4_Witness ==
  /\ Done
  /\ Len(SavedDoc.pages) = 3
  /\ SavedDoc.pages[3].pagesize = <<612, 792>>
  /\ height = 792

\* C5: when a library or file-system call raises, that error leaves the
\* program unchanged: nothing is retried, no later drawing call is made and
\* the confirmation line of the failing call is not printed.
C5_ErrorPropagates ==
  raises /= <<>> =>
    /\ Len(raises) = 1
    /\ status = "raised"
    /\ uncaught = raises[1].err
    /\ uncaught \in Errors
    /\ \A i \in DOMAIN calls :
         IsDraw(calls[i]) \/ IsShowPage(calls[i]) => calls[i].line < raises[1].line
    /\ raises[1].line >= 11 => Len(stdout) = Len(args) - 1
    /\ raises[1].line < 11 => stdout = <<>> /\ args = <<>>

C5_Witness ==
  /\ status = "raised"
  /\ raises /= <<>>
  /\ raises[1].line = 58
  /\ Len(c.pages) = 2

\* C6: the only persisted state the program changes is the file whose name
\* was passed to create_test_pdf: every file effect is on a passed name, the
\* completed call opened, wrote and closed exactly that file, no other kind
\* of external effect occurs, and no step changes another path.
C6_OnlyOutputFile ==
  /\ [](/\ \A i \in DOMAIN effects :
             /\ effects[i].kind \in {"open", "write", "close", "print"}
             /\ effects[i].kind /= "print" => effects[i].path \in Range(args)
        /\ \A p \in Filenames : p \notin Range(args) => fs[p] \in {Absent, Stale}
        /\ Done =>
             /\ Len(effects) = 4 * Len(args)
             /\ SubSeq(effects, Len(effects) - 3, Len(effects))
                  = <<Effect("open", filename), Effect("write", filename),
                      Effect("close", filename), Effect("print", "stdout")>>)
  /\ [][\A p \in Filenames : fs'[p] /= fs[p] => p = filename]_vars

C6_Witness ==
  /\ Done
  /\ args = <<"fixture.pdf">>
  /\ fs["fixture.pdf"].kind = "pdf"
  /\ fs["test_document.pdf"] = Stale

\* C7 as stated: each of the three pages is finalized by its own
\* page-finalization call before save is called, no drawString is issued
\* after the last of them, and save is the last call on the canvas.
C7_AsStated ==
  SaveCalled =>
    /\ Len(SelectSeq(SubSeq(calls, 1, SaveIndex - 1), IsShowPage)) = 3
    /\ IsShowPage(calls[SaveIndex - 1])
    /\ ScriptCalls[Len(ScriptCalls)].op = "save"

\* C7 amended: the script draws all strings of page 1, calls showPage, draws
\* all strings of page 2, calls showPage, draws all strings of page 3 and
\* calls save; pages 1 and 2 are finalized by the script's own showPage
\* calls, page 3 by the finalization save performs; save is the last call
\* the script makes on the canvas and no drawString follows it.
C7_ExpectedOps ==
  [i \in 1..36 |->
     IF i \in {11, 26} THEN "showPage" ELSE IF i = 36 THEN "save" ELSE "drawString"]

C7_PageOfCall(i) == IF i <= 11 THEN 1 ELSE IF i <= 26 THEN 2 ELSE 3

C7_Amended ==
  /\ Len(ScriptCalls) <= 36
  /\ OpsOf(ScriptCalls) = SubSeq(C7_ExpectedOps, 1, Len(ScriptCalls))
  /\ \A i \in DOMAIN ScriptCalls : ScriptCalls[i].page = C7_PageOfCall(i)
  /\ SaveCalled =>
       /\ SaveIndex = 36
       /\ Len(SelectSeq(SubSeq(calls, 1, SaveIndex - 1), IsShowPage)) = 2
       /\ IsDraw(calls[SaveIndex - 1])
  /\ (SaveCalled /\ status /= "raised") =>
       /\ Len(calls) = 37
       /\ calls[37].op = "showPage" /\ calls[37].by = "save"
       /\ Len(c.pages) = 3
       /\ c.code = <<>>

C7_Witness == Done /\ Len(calls) = 37 /\ calls[37].by = "save"

\* C8: the long line is cut at character offset 80, inside a word: it is
\* drawn as exactly two lines, the first the 80 characters 0..79 of
\* long_text, the second all characters from 80 on, and the two in drawing
\* order concatenate to long_text.
C8_LongLineSplit ==
  Done =>
    LET code == SavedDoc.pages[3].code
        first == code[8].text
        second == code[9].text
    IN  /\ Len(code) = 9
        /\ code[8].y = 792 - 280 /\ code[9].y = 792 - 300
        /\ Len(first) = 80
        /\ \A i \in 1..80 : first[i] = long_text[i]
        /\ Len(second) = Len(long_text) - 80
        /\ \A i \in 1..Len(second) : second[i] = long_text[80 + i]
        /\ first \o second = long_text
        /\ long_text[80] /= 32 /\ long_text[81] /= 32
        /\ Cardinality({i \in DOMAIN code : code[i].y <= 792 - 280}) = 2

C8_Witness ==
  /\ Done
  /\ Len(SavedDoc.pages[3].code[8].text) = 80
  /\ Len(SavedDoc.pages[3].code[9].text) = 117

\* C9: every text origin lies on the letter page: x is 100 or 350, and
\* y is 792 - k for an offset k in 100..360, so 0 <= x <= 612 and
\* 0 <= y <= 792, for all 33 calls.
C9_OriginsOnPage ==
  /\ \A code \in AllPageCodes : \A i \in DOMAIN code :
       /\ code[i].x \in {100, 350}
       /\ 0 <= code[i].x /\ code[i].x <= 612
       /\ \E k \in 100..360 : code[i].y = 792 - k
       /\ 0 <= code[i].y /\ code[i].y <= 792
  /\ \A i \in DOMAIN calls : IsDraw(calls[i]) =>
       /\ calls[i].x \in {100, 350}
       /\ calls[i].y \in (792 - 360)..(792 - 100)
  /\ Done => Len(SelectSeq(calls, IsDraw)) = 33

C9_Witness ==
  /\ Done
  /\ Len(SelectSeq(calls, IsDraw)) = 33
  /\ \E i \in DOMAIN calls : calls[i].x = 350 /\ calls[i].y = 592
  /\ \E i \in DOMAIN calls : calls[i].x = 100 /\ calls[i].y = 432

\* C10: on every page no two instructions share an origin, and instructions
\* that share an x are in strictly decreasing y in the order issued.
C10_NoOverlap ==
  \A code \in AllPageCodes : \A i, j \in DOMAIN code :
    i < j =>
      /\ <<code[i].x, code[i].y>> /= <<code[j].x, code[j].y>>
      /\ code[i].x = code[j].x => code[i].y > code[j].y

C10_Witness ==
  /\ Done
  /\ LET code == SavedDoc.pages[2].code
     IN  \E i, j \in DOMAIN code :
           /\ i < j
           /\ code[i].x = 100 /\ code[j].x = 350
           /\ code[i].y = code[j].y

====
